---- MODULE Spec2Model ----
(***************************************************************************)
(* BeatV2Manager (x-pack/libbeat/management/managerV2.go): the unit        *)
(* registry, the main-unit designation, the running flag, the event loop   *)
(* (unitListen), the reload tasks it spawns and the host-facing API.       *)
(*                                                                         *)
(* Processes: the host goroutine (one API call at a time), the event loop  *)
(* goroutine spawned by Start, and one reload goroutine per Added/Modified *)
(* event.  A step is one access to shared state; a critical section of     *)
(* unitsMut that holds only a map operation (addUnit, getUnit, deleteUnit) *)
(* is one step guarded by the mutex being free.  Accesses the code makes   *)
(* without a lock (mainUnit, isRunning) are separate read and write steps. *)
(***************************************************************************)
EXTENDS Integers, Sequences, FiniteSets, TLC

\* ---------------------------------------------------------------- bounds
MaxEvents == 2        \* events delivered on client.UnitChanges()
MaxStops == 2         \* host calls of Stop()
MaxStatusCalls == 1   \* host calls of UpdateStatus/RegisterAction/UnregisterAction

\* ---------------------------------------------------------------- data
UnitIDs == {"in1", "in2", "out1"}
NoUnit == ""          \* the empty mainUnit; also the nil *client.Unit of a failed lookup

UnitType(u) == IF u = "out1" THEN "Output" ELSE "Input"

ExpectedStates == {"Healthy", "Stopped"}
HostStatuses == {"Healthy", "Degraded"}
Payloads == {"nil", "p1"}
TaskIds == 1..MaxEvents

VARIABLES
  enabled,       \* config.Enabled
  units,         \* cm.units: the IDs registered
  mainUnit,      \* cm.mainUnit
  payload,       \* cm.payload
  stopFunc,      \* cm.stopFunc # nil
  beatStop,      \* cm.beatStop: TRUE once the sync.Once has fired
  isRunning,     \* cm.isRunning
  unitsMut,      \* holder of cm.unitsMut across more than a map operation: "free" or "host"
  hostPc,        \* position of the host goroutine
  hostArg,       \* the host call's local: the ID it read / the unit it looked up
  started,       \* "never", "failed", "ok": the outcome of Start
  loopPc,        \* position of the unitListen goroutine ("off" until spawned)
  loopEvt,       \* the change unitListen is processing
  nEvents,       \* changes received so far
  tasks,         \* reload goroutines, by the number of the event that spawned them
  crashed,       \* "no", or the call that panicked on a nil unit
  \* observations of the collaborators
  status,        \* per unit: the UpdateState calls it received, in order
  actions,       \* units holding the registered action
  cbCalls,       \* invocations of the stop callback
  clientStops,   \* calls of client.Stop()
  reloads,       \* tasks whose Reload call was invoked
  \* history
  sbLog,         \* per caller of stopBeat: what its current invocation did
  removedPending,\* units whose Removed was processed with no Added/Modified received since
  removedEver,   \* units for which a Removed event was received
  firstInput,    \* the Input unit whose Added/Modified was received first
  stopHist,      \* the host's latest Stop call: what held on entry and what it did
  nCalls         \* host calls made so far, by bound

vars == <<enabled, units, mainUnit, payload, stopFunc, beatStop, isRunning, unitsMut,
          hostPc, hostArg, started, loopPc, loopEvt, nEvents, tasks, crashed,
          status, actions, cbCalls, clientStops, reloads,
          sbLog, removedPending, removedEver, firstInput, stopHist, nCalls>>

mgrVars == <<enabled, units, mainUnit, payload, stopFunc, beatStop, isRunning, unitsMut>>
hostVars == <<hostPc, hostArg, started, stopHist, nCalls>>
loopVars == <<loopPc, loopEvt, nEvents, removedPending, removedEver, firstInput>>
obsVars == <<status, actions, cbCalls, clientStops, reloads>>

NoEvt == [type |-> "none", unit |-> NoUnit, expected |-> "Healthy"]
\* why: the collaborator outcome that ended the handler ("" while it has not ended).
NoTask == [pc |-> "none", unit |-> NoUnit, why |-> ""]
\* pre: on entry Start had succeeded, mainUnit was set and isRunning was true;
\* main: mainUnit on entry; found: the unit the lookup returned; cb: stopFunc on entry;
\* ran: stopBeat read isRunning as true; ret: the call has returned;
\* succ: Stop calls returned in succession, counted from one that ran with cb set.
NoStop == [pre |-> FALSE, main |-> NoUnit, found |-> NoUnit, cb |-> FALSE,
           ran |-> FALSE, ret |-> FALSE, succ |-> 0]

\* NewV2AgentManagerWithClient: an empty registry, everything else zero.
Init ==
  /\ enabled \in BOOLEAN
  /\ units = {}
  /\ mainUnit = NoUnit
  /\ payload = "nil"
  /\ stopFunc = FALSE
  /\ beatStop = FALSE
  /\ isRunning = FALSE
  /\ unitsMut = "free"
  /\ hostPc = "idle"
  /\ hostArg = NoUnit
  /\ started = "never"
  /\ loopPc = "off"
  /\ loopEvt = NoEvt
  /\ nEvents = 0
  /\ tasks = [t \in TaskIds |-> NoTask]
  /\ crashed = "no"
  /\ status = [u \in UnitIDs |-> <<>>]
  /\ actions = {}
  /\ cbCalls = 0
  /\ clientStops = 0
  /\ reloads = {}
  /\ sbLog = [p \in {"host", "loop"} |-> <<>>]
  /\ removedPending = {}
  /\ removedEver = {}
  /\ firstInput = NoUnit
  /\ stopHist = NoStop
  /\ nCalls = [stops |-> 0, status |-> 0]

\* Who called UpdateState: a host call, the event loop while it processes its
\* current event, or reload goroutine t (spawned for event t).
UpdateStatusSrc == <<"UpdateStatus", 0>>
StopSrc == <<"Stop", 0>>
unitListenSrc == <<"unitListen", nEvents>>
TaskSrc(t) == <<"task", t>>

\* unit.UpdateState(state, msg, payload) on unit u, called by src.
UpdateState(u, src, st, pl) ==
  status' = [status EXCEPT ![u] = Append(@, [src |-> src, state |-> st, payload |-> pl])]

\* A panic ends the process: no goroutine takes a step once crashed.
Alive == crashed = "no"

\* ------------------------------------------------------------- host API

\* Any host call other than Stop ends a run of successive Stop calls.
OtherCall == stopHist' = [stopHist EXCEPT !.succ = 0]

\* Faulty variant of Start: the event loop is spawned before the checks, so a
\* failing Start leaves it behind.
StartSpawnsFirst ==
  /\ Alive
  /\ hostPc = "idle" /\ started = "never"
  /\ \E clientOk \in BOOLEAN :
       IF enabled /\ clientOk
         THEN hostPc' = "Start_go" /\ started' = started /\ loopPc' = loopPc
         ELSE hostPc' = hostPc /\ started' = "failed" /\ loopPc' = "recv"
  /\ OtherCall
  /\ UNCHANGED <<mgrVars, hostArg, nCalls, loopEvt, nEvents, removedPending, removedEver,
                 firstInput, tasks, crashed, obsVars, sbLog>>

\* Start: the Enabled check and client.Start; a failure returns the error.
Start ==
  /\ Alive
  /\ hostPc = "idle" /\ started = "never"
  /\ \E clientOk \in BOOLEAN :
       IF enabled /\ clientOk
         THEN hostPc' = "Start_go" /\ started' = started
         ELSE hostPc' = hostPc /\ started' = "failed"
  /\ OtherCall
  /\ UNCHANGED <<mgrVars, hostArg, nCalls, loopVars, tasks, crashed, obsVars, sbLog>>

\* Start: go cm.unitListen()
StartGo ==
  /\ Alive
  /\ hostPc = "Start_go"
  /\ loopPc' = "recv"
  /\ hostPc' = "Start_set"
  /\ UNCHANGED <<mgrVars, hostArg, started, stopHist, nCalls, loopEvt, nEvents,
                 removedPending, removedEver, firstInput, tasks, crashed, obsVars, sbLog>>

\* Start: cm.isRunning = true; return nil
StartSet ==
  /\ Alive
  /\ hostPc = "Start_set"
  /\ isRunning' = TRUE
  /\ started' = "ok"
  /\ hostPc' = "idle"
  /\ UNCHANGED <<enabled, units, mainUnit, payload, stopFunc, beatStop, unitsMut,
                 hostArg, stopHist, nCalls, loopVars, tasks, crashed, obsVars, sbLog>>

SetStopCallback ==
  /\ Alive
  /\ hostPc = "idle" /\ ~stopFunc
  /\ stopFunc' = TRUE
  /\ OtherCall
  /\ UNCHANGED <<enabled, units, mainUnit, payload, beatStop, isRunning, unitsMut,
                 hostPc, hostArg, started, nCalls, loopVars, tasks, crashed, obsVars, sbLog>>

SetPayload ==
  /\ Alive
  /\ hostPc = "idle" /\ payload = "nil"
  /\ payload' = "p1"
  /\ OtherCall
  /\ UNCHANGED <<enabled, units, mainUnit, stopFunc, beatStop, isRunning, unitsMut,
                 hostPc, hostArg, started, nCalls, loopVars, tasks, crashed, obsVars, sbLog>>

\* Faulty variant of Stop: stopBeat is called whether or not the lookup found a unit.
StopUnchecked ==
  /\ Alive
  /\ hostPc = "idle" /\ nCalls.stops < MaxStops
  /\ unitsMut = "free"
  /\ unitsMut' = "host"
  /\ LET main == IF mainUnit \in units THEN mainUnit ELSE NoUnit IN
       /\ hostArg' = main
       /\ hostPc' = "sb_check"
       /\ stopHist' = [pre |-> started = "ok" /\ mainUnit # NoUnit /\ isRunning,
                       main |-> mainUnit, found |-> main, cb |-> stopFunc,
                       ran |-> FALSE, ret |-> FALSE, succ |-> stopHist.succ]
  /\ nCalls' = [nCalls EXCEPT !.stops = @ + 1]
  /\ sbLog' = [sbLog EXCEPT !["host"] = <<>>]
  /\ UNCHANGED <<enabled, units, mainUnit, payload, stopFunc, beatStop, isRunning,
                 started, loopVars, tasks, crashed, obsVars>>

\* Stop: lock unitsMut, look the main unit up; stopBeat(main) when it is there.
Stop ==
  /\ Alive
  /\ hostPc = "idle" /\ nCalls.stops < MaxStops
  /\ unitsMut = "free"
  /\ unitsMut' = "host"
  /\ LET main == IF mainUnit \in units THEN mainUnit ELSE NoUnit IN
       /\ hostArg' = main
       /\ hostPc' = IF main # NoUnit THEN "sb_check" ELSE "Stop_ret"
       /\ stopHist' = [pre |-> started = "ok" /\ mainUnit # NoUnit /\ isRunning,
                       main |-> mainUnit, found |-> main, cb |-> stopFunc,
                       ran |-> FALSE, ret |-> FALSE, succ |-> stopHist.succ]
  /\ nCalls' = [nCalls EXCEPT !.stops = @ + 1]
  /\ sbLog' = [sbLog EXCEPT !["host"] = <<>>]
  /\ UNCHANGED <<enabled, units, mainUnit, payload, stopFunc, beatStop, isRunning,
                 started, loopVars, tasks, crashed, obsVars>>

\* Stop: the deferred Unlock and the return.
StopReturn ==
  /\ Alive
  /\ hostPc = "Stop_ret"
  /\ unitsMut' = "free"
  /\ hostPc' = "idle"
  /\ hostArg' = NoUnit
  /\ stopHist' = [stopHist EXCEPT !.ret = TRUE,
                    !.succ = IF stopHist.ran /\ stopHist.cb THEN 1
                             ELSE IF @ >= 1 THEN @ + 1 ELSE 0]
  /\ UNCHANGED <<enabled, units, mainUnit, payload, stopFunc, beatStop, isRunning,
                 started, nCalls, loopVars, tasks, crashed, obsVars, sbLog>>

\* UpdateStatus: the argument cm.mainUnit is read before getUnit locks.
UpdateStatus ==
  /\ Alive
  /\ hostPc = "idle" /\ nCalls.status < MaxStatusCalls
  /\ hostArg' = mainUnit
  /\ hostPc' = "US_get"
  /\ nCalls' = [nCalls EXCEPT !.status = @ + 1]
  /\ OtherCall
  /\ UNCHANGED <<mgrVars, started, loopVars, tasks, crashed, obsVars, sbLog>>

\* getUnit(ID): the map read under unitsMut; nil when the ID is not registered.
getUnit(ID) == IF ID \in units THEN ID ELSE NoUnit

UpdateStatusGet ==
  /\ Alive
  /\ hostPc = "US_get"
  /\ unitsMut = "free"
  /\ hostArg' = getUnit(hostArg)
  /\ hostPc' = "US_push"
  /\ UNCHANGED <<mgrVars, started, stopHist, nCalls, loopVars, tasks, crashed, obsVars, sbLog>>

\* UpdateStatus: UpdateState on what getUnit returned; a nil unit is dereferenced.
UpdateStatusPush ==
  /\ Alive
  /\ hostPc = "US_push"
  /\ hostPc' = "idle"
  /\ hostArg' = NoUnit
  /\ IF hostArg = NoUnit
       THEN crashed' = "UpdateStatus" /\ status' = status
       ELSE /\ crashed' = crashed
            /\ \E st \in HostStatuses : UpdateState(hostArg, UpdateStatusSrc, st, payload)
  /\ UNCHANGED <<mgrVars, started, stopHist, nCalls, loopVars, tasks,
                 actions, cbCalls, clientStops, reloads, sbLog>>

\* RegisterAction / UnregisterAction: lock unitsMut and index cm.units[cm.mainUnit].
ActionLock(op) ==
  /\ Alive
  /\ hostPc = "idle" /\ nCalls.status < MaxStatusCalls
  /\ unitsMut = "free"
  /\ unitsMut' = "host"
  /\ hostArg' = IF mainUnit \in units THEN mainUnit ELSE NoUnit
  /\ hostPc' = op
  /\ nCalls' = [nCalls EXCEPT !.status = @ + 1]
  /\ OtherCall
  /\ UNCHANGED <<enabled, units, mainUnit, payload, stopFunc, beatStop, isRunning,
                 started, loopVars, tasks, crashed, obsVars, sbLog>>

\* The call on the unit found (a nil unit is dereferenced), then the deferred Unlock.
ActionCall(op) ==
  /\ Alive
  /\ hostPc = op
  /\ hostPc' = "idle"
  /\ hostArg' = NoUnit
  /\ unitsMut' = "free"
  /\ IF hostArg = NoUnit
       THEN crashed' = op /\ actions' = actions
       ELSE /\ crashed' = crashed
            /\ actions' = IF op = "RegisterAction" THEN actions \cup {hostArg}
                                                   ELSE actions \ {hostArg}
  /\ UNCHANGED <<enabled, units, mainUnit, payload, stopFunc, beatStop, isRunning,
                 started, stopHist, nCalls, loopVars, tasks,
                 status, cbCalls, clientStops, reloads, sbLog>>

RegisterAction == ActionLock("RegisterAction")
RegisterActionCall == ActionCall("RegisterAction")
UnregisterAction == ActionLock("UnregisterAction")
UnregisterActionCall == ActionCall("UnregisterAction")

\* ------------------------------------------------------------- stopBeat

\* stopBeat runs on the host goroutine (from Stop) or on the event loop.
Callers == {"host", "loop"}
pcOf(p) == IF p = "host" THEN hostPc ELSE loopPc
sbUnit(p) == IF p = "host" THEN hostArg ELSE loopEvt.unit
sbSrc(p) == IF p = "host" THEN StopSrc ELSE unitListenSrc
sbReturn(p) == IF p = "host" THEN "Stop_ret" ELSE "spawn"
SetPc(p, v) == IF p = "host" THEN hostPc' = v /\ loopPc' = loopPc
                             ELSE loopPc' = v /\ hostPc' = hostPc
Log(p, e) == sbLog' = [sbLog EXCEPT ![p] = Append(@, e)]
sbFrame == <<hostArg, started, nCalls, loopEvt, nEvents, removedPending, removedEver,
             firstInput, tasks, crashed>>

\* if !cm.isRunning { return }
stopBeatCheck(p) ==
  /\ Alive
  /\ pcOf(p) = "sb_check"
  /\ IF isRunning
       THEN SetPc(p, "sb_set") /\ Log(p, "running")
       ELSE SetPc(p, sbReturn(p)) /\ Log(p, "return")
  /\ stopHist' = IF p = "host" THEN [stopHist EXCEPT !.ran = isRunning] ELSE stopHist
  /\ UNCHANGED <<mgrVars, sbFrame, obsVars>>

\* Faulty variant of stopBeatSet: the running flag is left set.
stopBeatSetSkipped(p) ==
  /\ Alive
  /\ pcOf(p) = "sb_set"
  /\ SetPc(p, "sb_stopping")
  /\ Log(p, "isRunning=false")
  /\ UNCHANGED <<mgrVars, stopHist, sbFrame, obsVars>>

\* cm.isRunning = false
stopBeatSet(p) ==
  /\ Alive
  /\ pcOf(p) = "sb_set"
  /\ isRunning' = FALSE
  /\ SetPc(p, "sb_stopping")
  /\ Log(p, "isRunning=false")
  /\ UNCHANGED <<enabled, units, mainUnit, payload, stopFunc, beatStop, unitsMut,
                 stopHist, sbFrame, obsVars>>

\* unit.UpdateState(UnitStateStopping, "stopping beat", nil)
stopBeatStopping(p) ==
  /\ Alive
  /\ pcOf(p) = "sb_stopping"
  /\ UpdateState(sbUnit(p), sbSrc(p), "Stopping", "nil")
  /\ SetPc(p, "sb_cb")
  /\ Log(p, "Stopping")
  /\ UNCHANGED <<mgrVars, stopHist, sbFrame, actions, cbCalls, clientStops, reloads>>

\* Faulty variant of OnceDo: the callback is called directly, with no run-once guard.
OnceDoUnguarded == cbCalls' = cbCalls + 1 /\ beatStop' = TRUE

\* beatStop.Do(f): f runs on the first call only.
OnceDo ==
  IF beatStop THEN cbCalls' = cbCalls /\ beatStop' = beatStop
              ELSE cbCalls' = cbCalls + 1 /\ beatStop' = TRUE

\* if cm.stopFunc != nil { cm.beatStop.Do(cm.stopFunc) }
stopBeatCallback(p) ==
  /\ Alive
  /\ pcOf(p) = "sb_cb"
  /\ IF stopFunc
       THEN /\ OnceDo
            /\ sbLog' = [sbLog EXCEPT ![p] =
                           IF beatStop THEN Append(@, "Do") ELSE @ \o <<"Do", "stopFunc">>]
       ELSE UNCHANGED <<cbCalls, beatStop, sbLog>>
  /\ SetPc(p, "sb_client")
  /\ UNCHANGED <<enabled, units, mainUnit, payload, stopFunc, isRunning, unitsMut,
                 stopHist, sbFrame, status, actions, clientStops, reloads>>

\* cm.client.Stop()
stopBeatClient(p) ==
  /\ Alive
  /\ pcOf(p) = "sb_client"
  /\ clientStops' = clientStops + 1
  /\ SetPc(p, "sb_stopped")
  /\ Log(p, "client.Stop")
  /\ UNCHANGED <<mgrVars, stopHist, sbFrame, status, actions, cbCalls, reloads>>

\* unit.UpdateState(UnitStateStopped, "stopped beat", nil); return
stopBeatStopped(p) ==
  /\ Alive
  /\ pcOf(p) = "sb_stopped"
  /\ UpdateState(sbUnit(p), sbSrc(p), "Stopped", "nil")
  /\ SetPc(p, sbReturn(p))
  /\ Log(p, "Stopped")
  /\ UNCHANGED <<mgrVars, stopHist, sbFrame, actions, cbCalls, clientStops, reloads>>

stopBeat(p) ==
  \/ stopBeatCheck(p)
  \/ stopBeatSet(p)
  \/ stopBeatStopping(p)
  \/ stopBeatCallback(p)
  \/ stopBeatClient(p)
  \/ stopBeatStopped(p)

\* ------------------------------------------------------------- unitListen

\* go cm.handleUnitReload(unit): the goroutine of event number n.
Spawn(n, u) == tasks' = [tasks EXCEPT ![n] = [pc |-> "add", unit |-> u, why |-> ""]]

\* An Added or Modified event for u was received.
Seen(u) ==
  /\ removedPending' = removedPending \ {u}
  /\ firstInput' = IF firstInput = NoUnit /\ UnitType(u) = "Input" THEN u ELSE firstInput

\* case client.UnitChangedAdded
unitListenAdded ==
  /\ Alive
  /\ loopPc = "recv" /\ nEvents < MaxEvents
  /\ \E u \in UnitIDs :
       /\ loopEvt' = NoEvt
       /\ Spawn(nEvents + 1, u)
       /\ Seen(u)
  /\ nEvents' = nEvents + 1
  /\ UNCHANGED <<mgrVars, hostVars, loopPc, removedEver, crashed, obsVars, sbLog>>

\* Faulty variant of unitListenModified: the reload handler is spawned before
\* the shutdown sequence runs.
unitListenModifiedSpawnsFirst ==
  /\ Alive
  /\ loopPc = "recv" /\ nEvents < MaxEvents
  /\ \E u \in UnitIDs, e \in ExpectedStates :
       /\ Seen(u)
       /\ Spawn(nEvents + 1, u)
       /\ IF e = "Stopped"
            THEN /\ loopEvt' = [type |-> "Modified", unit |-> u, expected |-> e]
                 /\ loopPc' = "sb_check"
            ELSE /\ loopEvt' = NoEvt
                 /\ loopPc' = loopPc
  /\ nEvents' = nEvents + 1
  /\ sbLog' = [sbLog EXCEPT !["loop"] = <<>>]
  /\ UNCHANGED <<mgrVars, hostVars, removedEver, crashed, obsVars>>

\* case client.UnitChangedModified: stopBeat first when the expected state is Stopped.
unitListenModified ==
  /\ Alive
  /\ loopPc = "recv" /\ nEvents < MaxEvents
  /\ \E u \in UnitIDs, e \in ExpectedStates :
       /\ Seen(u)
       /\ IF e = "Stopped"
            THEN /\ loopEvt' = [type |-> "Modified", unit |-> u, expected |-> e]
                 /\ loopPc' = "sb_check" /\ tasks' = tasks
            ELSE /\ loopEvt' = NoEvt
                 /\ loopPc' = loopPc /\ Spawn(nEvents + 1, u)
  /\ nEvents' = nEvents + 1
  /\ sbLog' = [sbLog EXCEPT !["loop"] = <<>>]
  /\ UNCHANGED <<mgrVars, hostVars, removedEver, crashed, obsVars>>

\* case client.UnitChangedModified: go cm.handleUnitReload(change.Unit) after stopBeat.
unitListenSpawn ==
  /\ Alive
  /\ loopPc = "spawn"
  /\ Spawn(nEvents, loopEvt.unit)
  /\ loopPc' = "recv"
  /\ loopEvt' = NoEvt
  /\ UNCHANGED <<mgrVars, hostVars, nEvents, removedPending, removedEver,
                 firstInput, crashed, obsVars, sbLog>>

\* case client.UnitChangedRemoved: received.
unitListenRemoved ==
  /\ Alive
  /\ loopPc = "recv" /\ nEvents < MaxEvents
  /\ \E u \in UnitIDs :
       /\ loopEvt' = [type |-> "Removed", unit |-> u, expected |-> "Healthy"]
       /\ removedEver' = removedEver \cup {u}
  /\ loopPc' = "delete"
  /\ nEvents' = nEvents + 1
  /\ UNCHANGED <<mgrVars, hostVars, removedPending, firstInput, tasks, crashed,
                 obsVars, sbLog>>

\* Faulty variant of deleteUnit: removing the main unit also clears the designation.
deleteUnitClearsMain ==
  /\ Alive
  /\ loopPc = "delete"
  /\ unitsMut = "free"
  /\ units' = units \ {loopEvt.unit}
  /\ mainUnit' = IF mainUnit = loopEvt.unit THEN NoUnit ELSE mainUnit
  /\ removedPending' = removedPending \cup {loopEvt.unit}
  /\ loopPc' = "recv"
  /\ loopEvt' = NoEvt
  /\ UNCHANGED <<enabled, payload, stopFunc, beatStop, isRunning, unitsMut,
                 hostVars, nEvents, removedEver, firstInput, tasks, crashed,
                 obsVars, sbLog>>

\* deleteUnit: delete(cm.units, unit.ID()) under unitsMut.
deleteUnit ==
  /\ Alive
  /\ loopPc = "delete"
  /\ unitsMut = "free"
  /\ units' = units \ {loopEvt.unit}
  /\ removedPending' = removedPending \cup {loopEvt.unit}
  /\ loopPc' = "recv"
  /\ loopEvt' = NoEvt
  /\ UNCHANGED <<enabled, mainUnit, payload, stopFunc, beatStop, isRunning, unitsMut,
                 hostVars, nEvents, removedEver, firstInput, tasks, crashed,
                 obsVars, sbLog>>

unitListen ==
  \/ unitListenAdded
  \/ unitListenModified
  \/ unitListenSpawn
  \/ unitListenRemoved
  \/ deleteUnit
  \/ stopBeat("loop")

\* ------------------------------------------------------------- reload tasks

SetTask(t, pc) == tasks' = [tasks EXCEPT ![t].pc = pc]
\* The handler returns; why names the branch it returned from.
End(t, why) == tasks' = [tasks EXCEPT ![t].pc = "done", ![t].why = why]
Push(t, st) == UpdateState(tasks[t].unit, TaskSrc(t), st, "nil")
taskFrame == <<hostVars, loopVars, crashed, sbLog>>

\* Faulty variant of addUnit: the dispatch runs without the unit being inserted.
addUnitSkipped(t) ==
  /\ Alive
  /\ tasks[t].pc = "add"
  /\ unitsMut = "free"
  /\ SetTask(t, IF UnitType(tasks[t].unit) = "Output" THEN "out_group" ELSE "setMain")
  /\ UNCHANGED <<mgrVars, taskFrame, obsVars>>

\* handleUnitReload: cm.addUnit(unit) under unitsMut, then the dispatch on unit.Type().
addUnit(t) ==
  /\ Alive
  /\ tasks[t].pc = "add"
  /\ unitsMut = "free"
  /\ units' = units \cup {tasks[t].unit}
  /\ SetTask(t, IF UnitType(tasks[t].unit) = "Output" THEN "out_group" ELSE "setMain")
  /\ UNCHANGED <<enabled, mainUnit, payload, stopFunc, beatStop, isRunning, unitsMut,
                 taskFrame, obsVars>>

\* setMainUnitValue: if cm.mainUnit == "" (the read; no lock is held)
setMainUnitValue(t) ==
  /\ Alive
  /\ tasks[t].pc = "setMain"
  /\ SetTask(t, IF mainUnit = NoUnit THEN "setMain_write" ELSE "in_resolve")
  /\ UNCHANGED <<mgrVars, taskFrame, obsVars>>

\* setMainUnitValue: cm.mainUnit = unit.ID() (the write; no lock is held)
setMainUnitValueWrite(t) ==
  /\ Alive
  /\ tasks[t].pc = "setMain_write"
  /\ mainUnit' = tasks[t].unit
  /\ SetTask(t, "in_resolve")
  /\ UNCHANGED <<enabled, units, payload, stopFunc, beatStop, isRunning, unitsMut,
                 taskFrame, obsVars>>

\* handleInputReload: GetReloadableList("input"); nil => Failed, else Configuring.
handleInputResolve(t) ==
  /\ Alive
  /\ tasks[t].pc = "in_resolve"
  /\ \E found \in BOOLEAN :
       IF found THEN Push(t, "Configuring") /\ SetTask(t, "in_transform")
                ELSE Push(t, "Failed") /\ End(t, "noTarget")
  /\ UNCHANGED <<mgrVars, taskFrame, actions, cbCalls, clientStops, reloads>>

\* Faulty variant of handleInputTransform: the error branch reports Failed and does not return.
handleInputTransformNoReturn(t) ==
  /\ Alive
  /\ tasks[t].pc = "in_transform"
  /\ \E ok \in BOOLEAN :
       IF ok THEN SetTask(t, "in_reload") /\ status' = status
             ELSE Push(t, "Failed") /\ SetTask(t, "in_reload")
  /\ UNCHANGED <<mgrVars, taskFrame, actions, cbCalls, clientStops, reloads>>

\* handleInputReload: generateBeatConfig; an error => Failed.
handleInputTransform(t) ==
  /\ Alive
  /\ tasks[t].pc = "in_transform"
  /\ \E ok \in BOOLEAN :
       IF ok THEN SetTask(t, "in_reload") /\ status' = status
             ELSE Push(t, "Failed") /\ End(t, "transformErr")
  /\ UNCHANGED <<mgrVars, taskFrame, actions, cbCalls, clientStops, reloads>>

\* obj.Reload(cfg): an error => Failed, else Healthy.
Reload(t) ==
  /\ reloads' = reloads \cup {t}
  /\ \E ok \in BOOLEAN :
       /\ Push(t, IF ok THEN "Healthy" ELSE "Failed")
       /\ End(t, IF ok THEN "ok" ELSE "reloadErr")

handleInputReload(t) ==
  /\ Alive
  /\ tasks[t].pc = "in_reload"
  /\ Reload(t)
  /\ UNCHANGED <<mgrVars, taskFrame, actions, cbCalls, clientStops>>

\* handleOutputReload: groupByOutputs; an error => Failed.
handleOutputGroup(t) ==
  /\ Alive
  /\ tasks[t].pc = "out_group"
  /\ \E ok \in BOOLEAN :
       IF ok THEN SetTask(t, "out_resolve") /\ status' = status
             ELSE Push(t, "Failed") /\ End(t, "groupErr")
  /\ UNCHANGED <<mgrVars, taskFrame, actions, cbCalls, clientStops, reloads>>

\* Faulty variant of handleOutputResolve: Configuring is pushed before the nil check.
handleOutputResolveEarlyPush(t) ==
  /\ Alive
  /\ tasks[t].pc = "out_resolve"
  /\ \E found \in BOOLEAN :
       LET cfg == [src |-> TaskSrc(t), state |-> "Configuring", payload |-> "nil"]
           bad == [src |-> TaskSrc(t), state |-> "Failed", payload |-> "nil"]
       IN IF found
            THEN /\ status' = [status EXCEPT ![tasks[t].unit] = Append(@, cfg)]
                 /\ SetTask(t, "out_reload")
            ELSE /\ status' = [status EXCEPT ![tasks[t].unit] = Append(Append(@, cfg), bad)]
                 /\ End(t, "noTarget")
  /\ UNCHANGED <<mgrVars, taskFrame, actions, cbCalls, clientStops, reloads>>

\* handleOutputReload: GetReloadable("output"); nil => Failed, else Configuring.
handleOutputResolve(t) ==
  /\ Alive
  /\ tasks[t].pc = "out_resolve"
  /\ \E found \in BOOLEAN :
       IF found THEN Push(t, "Configuring") /\ SetTask(t, "out_reload")
                ELSE Push(t, "Failed") /\ End(t, "noTarget")
  /\ UNCHANGED <<mgrVars, taskFrame, actions, cbCalls, clientStops, reloads>>

handleOutputReload(t) ==
  /\ Alive
  /\ tasks[t].pc = "out_reload"
  /\ Reload(t)
  /\ UNCHANGED <<mgrVars, taskFrame, actions, cbCalls, clientStops>>

\* Faulty variant of ReloadHangs: the reload is called with unitsMut held.
ReloadHangsLocked(t) ==
  /\ Alive
  /\ tasks[t].pc \in {"in_reload", "out_reload"}
  /\ unitsMut = "free"
  /\ unitsMut' = "task"
  /\ reloads' = reloads \cup {t}
  /\ SetTask(t, "hung")
  /\ UNCHANGED <<enabled, units, mainUnit, payload, stopFunc, beatStop, isRunning,
                 taskFrame, status, actions, cbCalls, clientStops>>

\* obj.Reload(cfg) is called and never returns: the goroutine stays inside the call.
ReloadHangs(t) ==
  /\ Alive
  /\ tasks[t].pc \in {"in_reload", "out_reload"}
  /\ reloads' = reloads \cup {t}
  /\ SetTask(t, "hung")
  /\ UNCHANGED <<mgrVars, taskFrame, status, actions, cbCalls, clientStops>>

handleUnitReload(t) ==
  \/ addUnit(t)
  \/ setMainUnitValue(t)
  \/ setMainUnitValueWrite(t)
  \/ handleInputResolve(t)
  \/ handleInputTransform(t)
  \/ handleInputReload(t)
  \/ handleOutputGroup(t)
  \/ handleOutputResolve(t)
  \/ handleOutputReload(t)

\* ------------------------------------------------------------- specifications

Reloads == \E t \in TaskIds : handleUnitReload(t)

\* The reconciliation loop: the host starts the manager; the control plane sends
\* changes; every change's reload goroutine runs.
Next ==
  \/ Start
  \/ StartGo
  \/ StartSet
  \/ unitListen
  \/ Reloads

Spec == Init /\ [][Next]_vars

\* The same, with the host also registering the stop callback and calling Stop.
NextStop ==
  \/ Start
  \/ StartGo
  \/ StartSet
  \/ SetStopCallback
  \/ Stop
  \/ stopBeat("host")
  \/ StopReturn
  \/ unitListen
  \/ Reloads

SpecStop == Init /\ [][NextStop]_vars

\* The reconciliation loop with the host calling the main-unit forwarding API.
NextStatus ==
  \/ Start
  \/ StartGo
  \/ StartSet
  \/ UpdateStatus
  \/ UpdateStatusGet
  \/ UpdateStatusPush
  \/ RegisterAction
  \/ RegisterActionCall
  \/ UnregisterAction
  \/ UnregisterActionCall
  \/ unitListen
  \/ Reloads

SpecStatus == Init /\ [][NextStatus]_vars

\* The reconciliation loop with the host setting the payload and reporting status.
NextPayload ==
  \/ Start
  \/ StartGo
  \/ StartSet
  \/ SetPayload
  \/ UpdateStatus
  \/ UpdateStatusGet
  \/ UpdateStatusPush
  \/ unitListen
  \/ Reloads

SpecPayload == Init /\ [][NextPayload]_vars

\* The reconciliation loop with reload targets that may never return.
Hangs == \E t \in TaskIds : ReloadHangs(t)

NextLive ==
  \/ Start
  \/ StartGo
  \/ StartSet
  \/ unitListen
  \/ Reloads
  \/ Hangs

\* Every goroutine that can take a step is eventually scheduled: the host inside
\* Start, the event loop, and each reload goroutine. Nothing makes a reload
\* target hang, and nothing makes the host call Start.
Fairness ==
  /\ WF_vars(StartGo)
  /\ WF_vars(StartSet)
  /\ WF_vars(unitListen)
  /\ \A t \in TaskIds : WF_vars(handleUnitReload(t))

SpecLive == Init /\ [][NextLive]_vars /\ Fairness

\* ------------------------------------------------------------- properties

\* The statuses reload goroutine t pushed to its unit, in order.
TaskPushes(t) ==
  IF tasks[t].pc = "none" THEN <<>>
  ELSE SelectSeq(status[tasks[t].unit], LAMBDA e : e.src = TaskSrc(t))
\* The statuses caller src pushed to unit u, in order.
PushedBy(src, u) ==
  IF u = NoUnit THEN <<>>
  ELSE LET es == SelectSeq(status[u], LAMBDA e : e.src = src)
       IN [i \in 1..Len(es) |-> es[i].state]
States(es) == [i \in 1..Len(es) |-> es[i].state]
Terminal == {"Healthy", "Failed"}
NumTerminal(es) == Cardinality({i \in 1..Len(es) : es[i].state \in Terminal})
Designated(t) == tasks[t].pc \notin {"none", "add", "setMain", "setMain_write"}
IsInputTask(t) == tasks[t].pc # "none" /\ UnitType(tasks[t].unit) = "Input"

\* C1: the stop callback is invoked at most once, whatever the number and the
\* interleaving of Stop() calls and Modified/Stopped events; and exactly once by
\* the time two successive Stop() calls have returned, when the first of them
\* found the main unit registered, the callback set and the running flag true.
C1_StopCallbackOnce ==
  /\ cbCalls <= 1
  /\ (stopHist.ret /\ stopHist.succ >= 2) => cbCalls = 1

\* C1 witness: two successive Stop() calls have returned, the event loop ran a
\* shutdown trigger of its own, and the callback ran once.
C1_Witness ==
  /\ stopHist.ret /\ stopHist.succ = 2
  /\ sbLog["loop"] # <<>>
  /\ cbCalls = 1

\* C2: once mainUnit holds a unit ID, no step changes it.
C2_MainUnitSetOnce == [][mainUnit # NoUnit => mainUnit' = mainUnit]_vars

\* C3: once every reload goroutine spawned so far has run its designation step
\* (and at least one Input goroutine has), mainUnit is the Input unit whose
\* Added/Modified event the event loop received first.
C3_FirstInputIsMain ==
  ( /\ \E t \in TaskIds : IsInputTask(t)
    /\ \A t \in TaskIds : IsInputTask(t) => Designated(t)
    /\ loopPc \in {"recv", "delete"} )
  => mainUnit = firstInput

\* C4: a unit whose Removed event the loop has processed is absent from the
\* registry until an Added or Modified event for it is received.
C4_RemovedStaysAbsent == \A u \in removedPending : u \notin units

\* C5: the steps by which the event loop processes a Removed event (receiving it
\* and deleteUnit) change no registry entry but the removed unit's, spawn no
\* reload goroutine, invoke no reload, push no status, run no shutdown step and
\* leave mainUnit and the running flag alone.
C5_RemovedFrame ==
  [][ ( \/ loopPc = "recv" /\ loopPc' = "delete"
        \/ loopPc = "delete" /\ loopPc' = "recv" )
      => /\ (loopPc = "recv" => units' = units)
         /\ (loopPc = "delete" => units' = units \ {loopEvt.unit})
         /\ UNCHANGED <<tasks, status, reloads, actions, cbCalls, clientStops,
                        mainUnit, isRunning, beatStop, sbLog>> ]_vars

\* C5 witness: the main unit's Removed event was processed; the unit is gone
\* from the registry and still designated.
C5_Witness ==
  /\ mainUnit # NoUnit /\ mainUnit \in removedPending /\ mainUnit \notin units
  /\ \A t \in TaskIds : tasks[t].pc \in {"none", "done"}

\* C6: a reload goroutine whose unit has had no Removed event has inserted the
\* unit before it pushes a status or reaches a reload target, and the unit is
\* registered from then on, through the end of the goroutine.
C6_AddedBeforeReload ==
  \A t \in TaskIds :
    /\ tasks[t].pc = "add" => (TaskPushes(t) = <<>> /\ t \notin reloads)
    /\ (tasks[t].pc \notin {"none", "add"} /\ tasks[t].unit \notin removedEver)
         => tasks[t].unit \in units

\* C6 witness: an Output goroutine ended Failed without a reload target, and
\* its unit is registered.
C6_Witness ==
  \E t \in TaskIds :
    /\ tasks[t].pc = "done" /\ tasks[t].unit = "out1" /\ "out1" \notin removedEver
    /\ States(TaskPushes(t)) = <<"Failed">> /\ t \notin reloads
    /\ "out1" \in units

\* C7: a reload goroutine pushes at most one terminal status (Healthy or
\* Failed); a finished one pushed exactly one; and the terminal status is the
\* last status the goroutine pushed.
C7_OneTerminalStatus ==
  \A t \in TaskIds :
    LET es == TaskPushes(t) IN
      /\ NumTerminal(es) <= 1
      /\ tasks[t].pc = "done" => NumTerminal(es) = 1
      /\ NumTerminal(es) = 1 => (es[Len(es)].state \in Terminal /\ tasks[t].pc = "done")

\* C7 witness: an Input goroutine whose transform failed ended with
\* Configuring, Failed and no reload.
C7_Witness ==
  \E t \in TaskIds :
    /\ tasks[t].pc = "done" /\ IsInputTask(t)
    /\ States(TaskPushes(t)) = <<"Configuring", "Failed">> /\ t \notin reloads

\* The shutdown sequence in full, with and without a registered callback.
FullShutdown ==
  { <<"running", "isRunning=false", "Stopping", "Do", "stopFunc", "client.Stop", "Stopped">>,
    <<"running", "isRunning=false", "Stopping", "client.Stop", "Stopped">> }

\* C8: when the event loop's stopBeat for a Modified/Stopped event has returned:
\* if it read the running flag as true it cleared the flag, pushed Stopping to
\* the event's unit, invoked the registered callback, stopped the client and
\* pushed Stopped to the same unit, in that order; if it read the flag as false
\* it did nothing.
C8_ShutdownOrder ==
  loopPc = "spawn" =>
    \/ sbLog["loop"] = <<"return">>
    \/ /\ sbLog["loop"] \in FullShutdown
       /\ LET ps == PushedBy(unitListenSrc, loopEvt.unit)
          IN Len(ps) >= 2 /\ ps[Len(ps) - 1] = "Stopping" /\ ps[Len(ps)] = "Stopped"

\* C9: UpdateStatus, RegisterAction and UnregisterAction on a manager whose
\* registry holds no unit under the main-unit ID return without a panic and
\* change nothing.
C9_MissingMainUnitNoOp ==
  [][ ( /\ hostPc \in {"US_push", "RegisterAction", "UnregisterAction"}
        /\ hostArg = NoUnit
        /\ hostPc' = "idle" )
      => /\ crashed' = "no"
         /\ UNCHANGED <<status, actions, units, mainUnit, isRunning>> ]_vars

\* C10 as stated: a Stop() call entered with Start succeeded, mainUnit set and
\* the running flag true has, on return, cleared the flag, pushed Stopping and
\* Stopped to the main unit and (when registered) run the stop callback.
C10_StopRunsShutdown ==
  (stopHist.ret /\ stopHist.pre) =>
    /\ ~isRunning
    /\ PushedBy(StopSrc, stopHist.main) = <<"Stopping", "Stopped">>
    /\ (stopHist.cb => cbCalls >= 1)

\* C10 amended: a Stop() call that finds the main unit in the registry and reads
\* the running flag as true has, on return, cleared the flag, pushed Stopping
\* then Stopped to that unit, stopped the client and (when registered) run the
\* stop callback; a Stop() call that does not find the main unit in the
\* registry does nothing.
C10_StopRunsShutdownWhenFound ==
  /\ (stopHist.ret /\ stopHist.ran) =>
       /\ ~isRunning
       /\ PushedBy(StopSrc, stopHist.found) = <<"Stopping", "Stopped">>
       /\ sbLog["host"] \in FullShutdown \cup
            {<<"running", "isRunning=false", "Stopping", "Do", "client.Stop", "Stopped">>}
       /\ clientStops >= 1
       /\ (stopHist.cb => cbCalls = 1)
  /\ (stopHist.ret /\ stopHist.found = NoUnit) =>
       /\ sbLog["host"] = <<>>
       /\ \A u \in UnitIDs : PushedBy(StopSrc, u) \in {<<>>, <<"Stopping", "Stopped">>}

\* C10 witness: a Stop() call ran the shutdown sequence for the main unit with
\* the callback registered, and has returned.
C10_Witness ==
  /\ stopHist.ret /\ stopHist.ran /\ stopHist.cb
  /\ stopHist.found = mainUnit
  /\ cbCalls = 1 /\ ~isRunning

\* What a call that does nothing leaves alone.
NoEffect ==
  /\ crashed' = "no"
  /\ UNCHANGED <<units, mainUnit, isRunning, beatStop, stopFunc, tasks,
                 status, actions, cbCalls, clientStops, reloads>>

\* C11: as long as the event loop was not spawned (so whenever Start was never
\* called) no main unit is designated and the registry is empty; and a Stop() call made while no main unit is designated goes straight to its
\* return, both of its steps leaving the registry, mainUnit, the running flag,
\* the statuses, the stop callback and the client alone.
C11_StopWithoutMainUnit ==
  /\ [](loopPc = "off" => (mainUnit = NoUnit /\ units = {}))
  /\ [][ /\ (hostPc = "idle" /\ hostPc' \in {"sb_check", "Stop_ret"} /\ mainUnit = NoUnit)
              => (hostPc' = "Stop_ret" /\ NoEffect)
         /\ (hostPc = "Stop_ret" /\ stopHist.main = NoUnit /\ hostPc' = "idle")
              => (unitsMut' = "free" /\ sbLog["host"] = <<>> /\ NoEffect) ]_vars

\* C11 witness: Start succeeded, an Output unit is registered, no main unit is
\* designated, and a Stop() call has returned with the manager still running.
C11_Witness ==
  /\ stopHist.ret /\ stopHist.main = NoUnit /\ stopHist.found = NoUnit
  /\ started = "ok" /\ isRunning /\ "out1" \in units /\ mainUnit = NoUnit
  /\ sbLog["host"] = <<>>

\* C12: a Start that fails (manager not enabled, or client.Start returns an
\* error) changes nothing but its own result: no event loop, running flag false,
\* registry and statuses as constructed, and this stays so; the step on which a
\* successful Start returns leaves the event loop spawned and the running flag
\* true; and a disabled manager never starts.
C12_StartFailsCleanly ==
  /\ [](started = "failed" =>
          /\ loopPc = "off" /\ ~isRunning /\ hostPc = "idle"
          /\ units = {} /\ mainUnit = NoUnit /\ nEvents = 0
          /\ \A u \in UnitIDs : status[u] = <<>>
          /\ \A t \in TaskIds : tasks[t] = NoTask)
  /\ [](started = "ok" => enabled /\ loopPc # "off")
  /\ [][ /\ (started = "never" /\ started' = "failed")
              => UNCHANGED <<mgrVars, loopVars, tasks, crashed, obsVars>>
         /\ (started = "never" /\ started' = "ok")
              => (isRunning' /\ loopPc' # "off" /\ hostPc' = "idle") ]_vars

\* C12 witness: an enabled manager whose client failed to start.
C12_Witness ==
  started = "failed" /\ enabled /\ loopPc = "off" /\ ~isRunning /\ hostPc = "idle"

Hung(t) == tasks[t].pc = "hung"
AllReceived == loopPc = "recv" /\ nEvents = MaxEvents
Last(es) == es[Len(es)]

\* C13 as stated: while a unit's reload call hangs, the last status pushed to
\* that unit is Configuring.
C13_StuckUnitStaysConfiguring ==
  \A t \in TaskIds :
    Hung(t) => Last(status[tasks[t].unit]).state = "Configuring"

\* C13, amended: a reload call that never returns blocks neither the event loop
\* nor any other reload goroutine: once spawned, the loop goes on to receive and
\* process every event of the stream, and every reload goroutine spawned ends
\* either with its terminal status pushed or inside its own hanging reload call;
\* the stuck goroutine has pushed Configuring and nothing else and never pushes
\* again, so the unit's last status is Configuring for as long as no other event
\* of that unit has been received.
C13_HangIsLocal ==
  /\ (loopPc # "off") ~> AllReceived
  /\ \A t \in TaskIds :
       /\ Hung(t) ~> (AllReceived /\ \A n \in TaskIds : tasks[n].pc \in {"none", "done", "hung"})
       /\ (tasks[t].pc # "none") ~> (tasks[t].pc \in {"done", "hung"})
       /\ [](tasks[t].pc = "done" => Last(TaskPushes(t)).state \in Terminal)
       /\ [](Hung(t) =>
               /\ States(TaskPushes(t)) = <<"Configuring">>
               /\ (\A e \in 1..Len(status[tasks[t].unit]) :
                      status[tasks[t].unit][e].src = TaskSrc(t))
                    => Last(status[tasks[t].unit]).state = "Configuring")
  /\ [][\A t \in TaskIds :
          Hung(t) => (tasks'[t] = tasks[t] /\ (TaskPushes(t))' = TaskPushes(t))]_vars

\* C13 witness: the first event's reload call hangs, and the second event, for
\* another unit, was received afterwards and its goroutine ended with Healthy.
C13_Witness ==
  /\ Hung(1) /\ tasks[2].pc = "done" /\ AllReceived
  /\ tasks[1].unit # tasks[2].unit
  /\ States(TaskPushes(2)) = <<"Configuring", "Healthy">>
  /\ Last(status[tasks[1].unit]).state = "Configuring"

\* Events n1 and n2, in that order, are Added/Modified events of the same unit.
SameUnit(n1, n2) ==
  /\ n1 < n2
  /\ tasks[n1].pc # "none" /\ tasks[n2].pc # "none"
  /\ tasks[n1].unit = tasks[n2].unit

\* C14: for two Added/Modified events of the same unit, every status pushed by the
\* earlier event's reload handler precedes every status pushed by the later
\* event's, the later event's reload is not invoked while the earlier handler
\* has yet to call or skip its own, and when both handlers are done the last
\* status they pushed to the unit is the later one's.
C14_SameUnitInOrder ==
  \A n1, n2 \in TaskIds :
    SameUnit(n1, n2) =>
      LET es == status[tasks[n1].unit] IN
        /\ \A i, j \in 1..Len(es) :
             (es[i].src = TaskSrc(n1) /\ es[j].src = TaskSrc(n2)) => i < j
        /\ n2 \in reloads => (n1 \in reloads \/ tasks[n1].pc = "done")
        /\ (tasks[n1].pc = "done" /\ tasks[n2].pc = "done") =>
             Last(SelectSeq(es, LAMBDA e : e.src \in {TaskSrc(n1), TaskSrc(n2)})).src
               = TaskSrc(n2)

\* How many times state st was pushed to unit u.
NumPushed(u, st) == Cardinality({i \in 1..Len(status[u]) : status[u][i].state = st})
RECURSIVE SumPushed(_, _)
SumPushed(us, st) ==
  IF us = {} THEN 0
  ELSE LET u == CHOOSE x \in us : TRUE IN NumPushed(u, st) + SumPushed(us \ {u}, st)

\* C15: the body of the shutdown sequence runs at most once per manager: the
\* client is stopped at most once, Stopping and Stopped are each pushed at most
\* once over all units, and the host's Stop and the event loop are never both
\* past the test of the running flag.
C15_ShutdownBodyOnce ==
  /\ clientStops <= 1
  /\ SumPushed(UnitIDs, "Stopping") <= 1
  /\ SumPushed(UnitIDs, "Stopped") <= 1
  /\ ~(/\ hostPc \in {"sb_set", "sb_stopping", "sb_cb", "sb_client", "sb_stopped"}
       /\ loopPc \in {"sb_set", "sb_stopping", "sb_cb", "sb_client", "sb_stopped"})

\* C16: the registry mutex is never held by a goroutine that is about to push a
\* status, invoke the stop callback or stop the client: the host, the only
\* goroutine that keeps unitsMut over more than one step, never holds it while
\* inside the body of the shutdown sequence.
C16_MutexOnlyForMapOperation ==
  ~(unitsMut = "host" /\ hostPc \in {"sb_stopping", "sb_cb", "sb_client", "sb_stopped"})

\* C17: the statuses a reload handler pushed are determined by the collaborator
\* outcome it ended on: Failed alone when the reload target is not found (or, for
\* an Output, grouping the configuration fails), Configuring then Healthy when
\* everything succeeds, Configuring then Failed when the reload call fails or an
\* Input's configuration transform fails; and Reload was invoked only by handlers
\* that had pushed Configuring and met no resolution or transform failure.
C17_StatusesFollowOutcome ==
  \A t \in TaskIds :
    LET es == States(TaskPushes(t))
        why == tasks[t].why
    IN /\ (tasks[t].pc = "done") = (why # "")
       /\ why \in {"noTarget", "groupErr"} => es = <<"Failed">>
       /\ why = "ok" => es = <<"Configuring", "Healthy">>
       /\ why \in {"reloadErr", "transformErr"} => es = <<"Configuring", "Failed">>
       /\ why = "transformErr" => UnitType(tasks[t].unit) = "Input"
       /\ why = "groupErr" => UnitType(tasks[t].unit) = "Output"
       /\ t \in reloads => (why \in {"ok", "reloadErr"} /\ es[1] = "Configuring")
       /\ why \in {"ok", "reloadErr"} => t \in reloads
       /\ why = "" => es \in {<<>>, <<"Configuring">>}

\* C17 witness: one handler found no reload target and pushed Failed alone, the
\* other reloaded successfully.
C17_Witness ==
  /\ tasks[1].why = "noTarget" /\ States(TaskPushes(1)) = <<"Failed">> /\ 1 \notin reloads
  /\ tasks[2].why = "ok" /\ States(TaskPushes(2)) = <<"Configuring", "Healthy">>
  /\ 2 \in reloads

SbPcs == {"sb_check", "sb_set", "sb_stopping", "sb_cb", "sb_client", "sb_stopped"}

\* C18: while the event loop runs the shutdown sequence for a Modified event with
\* desired state Stopped, that event's reload handler does not exist yet; the
\* sequence, whether it ran or returned at once, is left only for the spawn step,
\* which starts the handler of exactly that event and unit; a handler once
\* started is never started again; and in every unit's status log the pushes the
\* loop made for an event precede all pushes of that event's handler.
C18_ShutdownThenSpawn ==
  /\ [](loopPc \in SbPcs \cup {"spawn"} =>
          /\ tasks[nEvents] = NoTask
          /\ loopEvt.type = "Modified" /\ loopEvt.expected = "Stopped")
  /\ [](loopPc = "spawn" => (sbLog["loop"] = <<"return">> \/ Last(sbLog["loop"]) = "Stopped"))
  /\ [](\A u \in UnitIDs, n \in TaskIds : \A i, j \in 1..Len(status[u]) :
          (status[u][i].src = <<"unitListen", n>> /\ status[u][j].src = TaskSrc(n)) => i < j)
  /\ [][ /\ (loopPc \in SbPcs /\ loopPc' \notin SbPcs) => loopPc' = "spawn"
         /\ (loopPc = "spawn" /\ loopPc' # "spawn") =>
              /\ tasks' = [tasks EXCEPT ![nEvents] = [pc |-> "add", unit |-> loopEvt.unit, why |-> ""]]
              /\ nEvents' = nEvents /\ loopPc' = "recv"
         /\ \A n \in TaskIds :
              tasks[n].pc # "none" => (tasks'[n].pc \notin {"none", "add"} \/ tasks'[n] = tasks[n])
       ]_vars

\* C18 witness: the first event's shutdown sequence ran and its handler pushed
\* afterwards; the second event's shutdown sequence was a no-op and its handler
\* was spawned all the same.
C18_Witness ==
  /\ nEvents = 2 /\ loopPc = "recv" /\ sbLog["loop"] = <<"return">>
  /\ tasks[2].pc # "none"
  /\ \E u \in UnitIDs :
       /\ Len(status[u]) >= 3
       /\ status[u][1] = [src |-> <<"unitListen", 1>>, state |-> "Stopping", payload |-> "nil"]
       /\ status[u][2] = [src |-> <<"unitListen", 1>>, state |-> "Stopped", payload |-> "nil"]
       /\ status[u][3].src = TaskSrc(1)

\* C19: every status pushed to a unit carries the payload last given to
\* SetPayload: whenever a step appends to a unit's status log, the appended
\* report's payload is the manager's payload field.
C19_PayloadOnEveryPush ==
  [][\A u \in UnitIDs :
       status'[u] # status[u] => Last(status'[u]).payload = payload]_vars

\* A shutdown sequence has run its body as far as the Stopping push.
ShutdownHasRun == SumPushed(UnitIDs, "Stopping") >= 1

\* C20: after a successful Start, a Modified event with desired state Stopped
\* whose shutdown sequence returned at once, as a no-op, was preceded by a
\* shutdown sequence that ran; and once a shutdown sequence has run the running
\* flag is false for good.
C20_NoTriggerLostAtStartup ==
  /\ (started = "ok" /\ loopPc = "spawn" /\ sbLog["loop"] = <<"return">>) => ShutdownHasRun
  /\ ShutdownHasRun => ~isRunning

====
